---- MODULE Spec2Model ----
(***************************************************************************)
(* A model of the boids flocking plugin (src/src/boids.rs).                *)
(*                                                                         *)
(* The world holds the resources of the plugin (Boids, BoidCount,          *)
(* RandomGenerator), the queue of deferred Commands and the three          *)
(* per-entity components Position, Velocity and Acceleration.  One frame   *)
(* of the Update schedule runs the three systems spawn, flock and          *)
(* update_boid, of which only (flock, update_boid) are chained; the        *)
(* deferred commands are applied when the schedule ends.                   *)
(*                                                                         *)
(* f32 values are modelled on the integer grid (one world unit; time in    *)
(* milliseconds), rounding toward zero, with one extra value NaN that      *)
(* propagates the way IEEE arithmetic propagates it.                       *)
(***************************************************************************)
EXTENDS Integers, Sequences, FiniteSets, TLC

(***************************************************************************)
(* Program constants.                                                      *)
(***************************************************************************)
R == 5
MAX_FORCE == 5
MAX_SPEED == 300
DESIRED_SEPARATION == 50
NEIGHBOUR_RADIUS == 100
\* the three multipliers are held in tenths: 1.2, 1.0, 1.0
SEPARATION_MULTIPLIER == 12
ALIGN_MULTIPLIER == 10
COHESION_MULTIPLIER == 10

(***************************************************************************)
(* Bounds of the model.                                                    *)
(***************************************************************************)
\* the max_boid_count the plugin is built with (BoidsPlugin::new)
MaxBoidCount == 3
\* the number of frames a behaviour runs
MaxFrames == 4
\* the largest flock a single force and integration pass is tried on
MaxFlock == 2

\* time.delta_seconds() of a frame, in milliseconds
Deltas == {0, 100}
\* <<window.width() / 2, window.height() / 2>>
Windows == {<<20, 10>>, <<120, 60>>}
\* the headings the random generator may yield, in degrees
Angles == {0, 90, 180, 225}

(***************************************************************************)
(* Vec2 / Vec3 (the z component of the one Vec3 in the code is always 0).  *)
(***************************************************************************)
Vec2(x, y) == [x |-> x, y |-> y, nan |-> FALSE]
ZERO == Vec2(0, 0)
NaN == [x |-> 0, y |-> 0, nan |-> TRUE]

\* integer division rounding toward zero, b > 0
Quot(a, b) == IF a >= 0 THEN a \div b ELSE -((-a) \div b)
Abs(a) == IF a >= 0 THEN a ELSE -a

RECURSIVE SqrtSearch(_, _, _)
SqrtSearch(n, lo, hi) ==
    IF lo >= hi THEN lo
    ELSE LET mid == (lo + hi) \div 2
         IN  IF mid * mid >= n THEN SqrtSearch(n, lo, mid)
                               ELSE SqrtSearch(n, mid + 1, hi)
\* the least r with r * r >= n
sqrt_ceil(n) == SqrtSearch(n, 0, 46340)

add(a, b) == IF a.nan \/ b.nan THEN NaN ELSE Vec2(a.x + b.x, a.y + b.y)
sub(a, b) == IF a.nan \/ b.nan THEN NaN ELSE Vec2(a.x - b.x, a.y - b.y)
\* v * k for an integer k; NaN * 0 is NaN
mul(v, k) == IF v.nan THEN NaN ELSE Vec2(v.x * k, v.y * k)
\* v * (num / den)
mul_frac(v, num, den) ==
    IF v.nan THEN NaN ELSE Vec2(Quot(v.x * num, den), Quot(v.y * num, den))
length_squared(v) == v.x * v.x + v.y * v.y

\* v.normalize().mul(s): v * (1 / |v|) * s; the zero vector gives 0 * inf = NaN.
\* The length is taken at the finest resolution 32-bit integers allow and is
\* rounded up, the quotient toward zero, so the result is never longer than s.
normalize_mul(v, s) ==
    IF v.nan \/ length_squared(v) = 0 THEN NaN
    ELSE LET prec == 46340 \div (Abs(v.x) + Abs(v.y))
             len  == sqrt_ceil(length_squared(v) * prec * prec)
         IN  Vec2(Quot(v.x * s * prec, len), Quot(v.y * s * prec, len))

\* v.clamp_length_max(max): v when |v|^2 <= max^2 (also when v is NaN: the
\* comparison is false), else max * (v / |v|)
clamp_length_max(v, max) ==
    IF v.nan THEN NaN
    ELSE IF length_squared(v) > max * max THEN normalize_mul(v, max) ELSE v

\* a.distance(b) squared; -1 stands for a NaN distance
distance_squared(a, b) ==
    IF a.nan \/ b.nan THEN -1 ELSE length_squared(sub(a, b))
\* dist > 0f32 && dist < radius (false for a NaN distance)
within(a, b, radius) ==
    /\ distance_squared(a, b) > 0
    /\ distance_squared(a, b) < radius * radius

\* diff.normalize().div(dist) = diff / dist^2, held in ten-thousandths
normalize_div(diff, dist_squared) == mul_frac(diff, 10000, dist_squared)

(***************************************************************************)
(* The state.                                                              *)
(***************************************************************************)
VARIABLES
    world,        \* resources, components and deferred commands of the App
    stream,       \* the values StdRng::from_seed(seed) yields, in order
    frame,        \* number of the running frame
    delta,        \* time.delta_seconds() of the running frame (ms)
    window,       \* <<half_width, half_height>> of the running frame
    order,        \* the systems of Update that ran in this frame, in order
    frame_start,  \* the world as it stood when the frame began
    twin,         \* the world of a second, independent run of the App
    twin_order    \* the systems that ran in the second run's frame

vars == <<world, stream, frame, delta, window, order, frame_start, twin, twin_order>>

Range(s) == {s[i] : i \in 1..Len(s)}

(***************************************************************************)
(* Boid: the three steering behaviours.                                    *)
(***************************************************************************)
\* Boid::seek
seek(target, position, velocity) ==
    clamp_length_max(
        sub(normalize_mul(sub(target, position), MAX_SPEED), velocity),
        MAX_FORCE)

\* positions.get(boid) is Ok only for an entity that holds the component
has(w, boid) == boid \in w.entities

\* the loop "for &boid in &boids.0" of separate, from index i on
RECURSIVE separate_sum(_, _, _)
separate_sum(w, position, i) ==
    IF i > Len(w.boids) THEN [steer |-> ZERO, count |-> 0]
    ELSE LET boid == w.boids[i]
             rest == separate_sum(w, position, i + 1)
         IN  IF has(w, boid) /\ within(position, w.position[boid], DESIRED_SEPARATION)
             THEN [steer |-> add(normalize_div(sub(position, w.position[boid]),
                                               distance_squared(position, w.position[boid])),
                                 rest.steer),
                   count |-> rest.count + 1]
             ELSE rest

\* Boid::separate
separate(w, position, velocity) ==
    LET acc   == separate_sum(w, position, 1)
        steer == IF acc.count > 0 THEN mul_frac(acc.steer, 1, acc.count) ELSE acc.steer
    IN  IF length_squared(steer) > 0
        THEN clamp_length_max(sub(normalize_mul(steer, MAX_SPEED), velocity), MAX_FORCE)
        ELSE steer

\* the loop of align: the sum of the neighbours' velocities and their number
RECURSIVE align_sum(_, _, _)
align_sum(w, position, i) ==
    IF i > Len(w.boids) THEN [sum |-> ZERO, count |-> 0]
    ELSE LET boid == w.boids[i]
             rest == align_sum(w, position, i + 1)
         IN  IF has(w, boid) /\ within(position, w.position[boid], NEIGHBOUR_RADIUS)
             THEN [sum |-> add(w.velocity[boid], rest.sum), count |-> rest.count + 1]
             ELSE rest

\* Boid::align.  sum.div(count).normalize() is the direction of sum itself
\* (count > 0), so the division, which only rescales, is not rounded here.
align(w, position, velocity) ==
    LET acc == align_sum(w, position, 1)
    IN  IF acc.count > 0
        THEN clamp_length_max(sub(normalize_mul(acc.sum, MAX_SPEED), velocity), MAX_FORCE)
        ELSE Vec2(0, 0)

\* the loop of cohesion: the sum of the neighbours' positions and their number
RECURSIVE cohesion_sum(_, _, _)
cohesion_sum(w, position, i) ==
    IF i > Len(w.boids) THEN [sum |-> ZERO, count |-> 0]
    ELSE LET boid == w.boids[i]
             rest == cohesion_sum(w, position, i + 1)
         IN  IF has(w, boid) /\ within(position, w.position[boid], NEIGHBOUR_RADIUS)
             THEN [sum |-> add(w.position[boid], rest.sum), count |-> rest.count + 1]
             ELSE rest

\* Boid::cohesion.  seek(sum / count, position, ..) is taken in coordinates
\* scaled by count: target - position and sum - count * position have the
\* same direction, and are zero together, without rounding the centroid.
cohesion(w, position, velocity) ==
    LET acc == cohesion_sum(w, position, 1)
    IN  IF acc.count > 0
        THEN seek(acc.sum, mul(position, acc.count), velocity)
        ELSE Vec2(0, 0)

(***************************************************************************)
(* The systems.                                                            *)
(***************************************************************************)
\* a.cos() and a.sin() in thousandths, for a in degrees
cos(a) == CASE a = 0 -> 1000 [] a = 90 -> 0 [] a = 180 -> -1000 [] a = 225 -> -707
sin(a) == CASE a = 0 -> 0 [] a = 90 -> 1000 [] a = 180 -> 0 [] a = 225 -> -707

\* the BoidBundle spawn builds for the heading a
BoidBundle(a) ==
    [position     |-> ZERO,
     velocity     |-> mul_frac(Vec2(cos(a), sin(a)), MAX_SPEED \div 2, 1000),
     acceleration |-> ZERO]

\* The Commands queued by the systems of a schedule.  spawn is ordered against
\* no system and flock holds no Commands, so the plugin puts no sync point
\* into Update: the queue is applied when the schedule ends.
RECURSIVE apply_deferred(_)
apply_deferred(w) ==
    IF w.commands = <<>> THEN w
    ELSE LET c == Head(w.commands)
         IN  apply_deferred(
                 [w EXCEPT !.commands     = Tail(@),
                           !.entities     = @ \cup {c.id},
                           !.position     = [e \in DOMAIN @ \cup {c.id} |->
                                                IF e = c.id THEN c.bundle.position ELSE @[e]],
                           !.velocity     = [e \in DOMAIN @ \cup {c.id} |->
                                                IF e = c.id THEN c.bundle.velocity ELSE @[e]],
                           !.acceleration = [e \in DOMAIN @ \cup {c.id} |->
                                                IF e = c.id THEN c.bundle.acceleration ELSE @[e]]])

\* the guard of spawn, stopping one agent short of the cap
below_cap_short(boid_count, max_boid_count) == boid_count < max_boid_count - 1

\* the guard of spawn
below_cap(boid_count, max_boid_count) == boid_count < max_boid_count

\* spawn with the entity inserted at once instead of by a deferred command
spawn_immediate(w, rng_stream) ==
    IF below_cap(w.boid_count, MaxBoidCount)
    THEN LET a       == rng_stream[w.rng + 1]
             boid_id == Len(w.boids) + 1
         IN  apply_deferred(
                 [w EXCEPT !.rng        = @ + 1,
                           !.commands   = Append(@, [id |-> boid_id, bundle |-> BoidBundle(a)]),
                           !.boids      = Append(@, boid_id),
                           !.boid_count = @ + 1])
    ELSE w

\* spawn: one system run
spawn(w, rng_stream) ==
    IF below_cap(w.boid_count, MaxBoidCount)
    THEN LET a       == rng_stream[w.rng + 1]
             boid_id == Len(w.boids) + 1
         IN  [w EXCEPT !.rng        = @ + 1,
                       !.commands   = Append(@, [id |-> boid_id, bundle |-> BoidBundle(a)]),
                       !.boids      = Append(@, boid_id),
                       !.boid_count = @ + 1]
    ELSE w

\* the body of the loop of flock, for one entity of the query
flock_one(w, e) ==
    LET pos == w.position[e]
        vel == w.velocity[e]
        sep == mul_frac(separate(w, pos, vel), SEPARATION_MULTIPLIER, 10)
        ali == mul_frac(align(w, pos, vel), ALIGN_MULTIPLIER, 10)
        coh == mul_frac(cohesion(w, pos, vel), COHESION_MULTIPLIER, 10)
    IN  add(add(add(w.acceleration[e], sep), ali), coh)

\* flock: one system run, over every entity of the query
flock(w) ==
    [w EXCEPT !.acceleration = [e \in w.entities |-> flock_one(w, e)]]

\* the wrap with the bounds themselves taken as outside
wrap_inclusive(p, half) ==
    IF p <= -half - R THEN half + R
    ELSE IF p >= half + R THEN -half - R
    ELSE p

\* the wrap of one coordinate around the half extent
wrap(p, half) ==
    IF p < -half - R THEN half + R
    ELSE IF p > half + R THEN -half - R
    ELSE p

\* acc.0.mul_assign(0f32)
reset(acc) == mul(acc, 0)

\* the body of the loop of update_boid, for one entity of the query
update_one(pos, vel, acc, dt, half_width, half_height) ==
    LET v == clamp_length_max(add(vel, acc), MAX_SPEED)
        p == add(pos, mul_frac(v, dt, 1000))
    IN  [position     |-> IF p.nan THEN p
                          ELSE Vec2(wrap(p.x, half_width), wrap(p.y, half_height)),
         velocity     |-> v,
         acceleration |-> reset(acc)]

\* update_boid: one system run, over every entity of the query
update_boid(w, dt, win) ==
    LET next(e) == update_one(w.position[e], w.velocity[e], w.acceleration[e],
                              dt, win[1], win[2])
    IN  [w EXCEPT !.position     = [e \in w.entities |-> next(e).position],
                  !.velocity     = [e \in w.entities |-> next(e).velocity],
                  !.acceleration = [e \in w.entities |-> next(e).acceleration]]

\* the world after the Startup schedule: no boid, the generator seeded
World0 ==
    [boids        |-> <<>>,
     boid_count   |-> 0,
     rng          |-> 0,
     commands     |-> <<>>,
     entities     |-> {},
     position     |-> <<>>,
     velocity     |-> <<>>,
     acceleration |-> <<>>]

(***************************************************************************)
(* The Update schedule: spawn is ordered against neither of the other two, *)
(* flock and update_boid are chained.                                      *)
(***************************************************************************)
Systems == {"spawn", "flock", "update_boid"}

\* flock and update_boid added without .chain()
unchained(ran) == TRUE

\* (flock, update_boid).chain(): update_boid runs after flock
chained(ran) == "flock" \in Range(ran)

\* the schedule is over when each of its systems has run
schedule_done(ran) == Range(ran) = Systems

Init ==
    /\ world = World0
    /\ stream \in [1..MaxBoidCount -> Angles]
    /\ frame = 1
    /\ delta \in Deltas
    /\ window \in Windows
    /\ order = <<>>
    /\ frame_start = World0
    /\ twin = World0
    /\ twin_order = <<>>

RunSpawn ==
    /\ "spawn" \notin Range(order)
    /\ world' = spawn(world, stream)
    /\ order' = Append(order, "spawn")
    /\ UNCHANGED <<stream, frame, delta, window, frame_start, twin, twin_order>>

RunFlock ==
    /\ "flock" \notin Range(order)
    /\ world' = flock(world)
    /\ order' = Append(order, "flock")
    /\ UNCHANGED <<stream, frame, delta, window, frame_start, twin, twin_order>>

RunUpdateBoid ==
    /\ "update_boid" \notin Range(order)
    /\ chained(order)
    /\ world' = update_boid(world, delta, window)
    /\ order' = Append(order, "update_boid")
    /\ UNCHANGED <<stream, frame, delta, window, frame_start, twin, twin_order>>

\* the end of Update and the start of the next frame, with its time and window
EndFrame ==
    /\ schedule_done(order)
    /\ frame < MaxFrames
    /\ world' = apply_deferred(world)
    /\ frame_start' = world'
    /\ order' = <<>>
    /\ frame' = frame + 1
    /\ delta' \in Deltas
    /\ window' \in Windows
    /\ UNCHANGED <<stream, twin, twin_order>>

Next == RunSpawn \/ RunFlock \/ RunUpdateBoid \/ EndFrame

Spec == Init /\ [][Next]_vars

(***************************************************************************)
(* Two independent runs of the App on the same seed, the same delta        *)
(* sequence and the same windows.  The runs share nothing, so the second   *)
(* run's frame is taken after the first run's; each picks its own order.   *)
(***************************************************************************)
TwinSpawn ==
    /\ schedule_done(order)
    /\ "spawn" \notin Range(twin_order)
    /\ twin' = spawn(twin, stream)
    /\ twin_order' = Append(twin_order, "spawn")
    /\ UNCHANGED <<world, stream, frame, delta, window, order, frame_start>>

TwinFlock ==
    /\ schedule_done(order)
    /\ "flock" \notin Range(twin_order)
    /\ twin' = flock(twin)
    /\ twin_order' = Append(twin_order, "flock")
    /\ UNCHANGED <<world, stream, frame, delta, window, order, frame_start>>

TwinUpdateBoid ==
    /\ schedule_done(order)
    /\ "update_boid" \notin Range(twin_order)
    /\ chained(twin_order)
    /\ twin' = update_boid(twin, delta, window)
    /\ twin_order' = Append(twin_order, "update_boid")
    /\ UNCHANGED <<world, stream, frame, delta, window, order, frame_start>>

EndFrameBoth ==
    /\ schedule_done(order)
    /\ schedule_done(twin_order)
    /\ frame < MaxFrames
    /\ world' = apply_deferred(world)
    /\ twin' = apply_deferred(twin)
    /\ frame_start' = world'
    /\ order' = <<>>
    /\ twin_order' = <<>>
    /\ frame' = frame + 1
    /\ delta' \in Deltas
    /\ window' \in Windows
    /\ UNCHANGED stream

NextDet ==
    \/ RunSpawn \/ RunFlock \/ RunUpdateBoid
    \/ TwinSpawn \/ TwinFlock \/ TwinUpdateBoid
    \/ EndFrameBoth

SpecDet == Init /\ [][NextDet]_vars

(***************************************************************************)
(* One force pass and one integration pass over a given flock: the inputs  *)
(* of flock and update_boid are drawn from small sets.                     *)
(***************************************************************************)
ScenarioPositions ==
    {Vec2(-25, 0), Vec2(-10, 0), Vec2(0, 0), Vec2(10, 0), Vec2(25, 0),
     Vec2(0, 15), Vec2(0, -15)}
ScenarioVelocities == {ZERO, Vec2(150, 0), Vec2(0, -150)}
ScenarioDeltas == {0, 16}
ScenarioWindows == {<<20, 10>>}

ScenarioWorld(n, pos, vel) ==
    [boids        |-> [i \in 1..n |-> i],
     boid_count   |-> n,
     rng          |-> n,
     commands     |-> <<>>,
     entities     |-> 1..n,
     position     |-> pos,
     velocity     |-> vel,
     acceleration |-> [e \in 1..n |-> ZERO]]

InitFn ==
    /\ \E n \in 1..MaxFlock :
         \E pos \in [1..n -> ScenarioPositions], vel \in [1..n -> ScenarioVelocities] :
            world = ScenarioWorld(n, pos, vel)
    /\ stream = [i \in 1..MaxBoidCount |-> 0]
    /\ frame = 1
    /\ delta \in ScenarioDeltas
    /\ window \in ScenarioWindows
    /\ order = <<>>
    /\ frame_start = world
    /\ twin = World0
    /\ twin_order = <<>>

NextFn == RunFlock \/ RunUpdateBoid

SpecFn == InitFn /\ [][NextFn]_vars

(***************************************************************************)
(* Helpers of the properties.                                              *)
(***************************************************************************)
IsPrefix(s, t) == Len(s) <= Len(t) /\ \A i \in 1..Len(s) : s[i] = t[i]
Ran(system) == system \in Range(order)
IsNaN(v) == v.nan
Finite(w, e) ==
    ~IsNaN(w.position[e]) /\ ~IsNaN(w.velocity[e]) /\ ~IsNaN(w.acceleration[e])
Dot(a, b) == a.x * b.x + a.y * b.y
\* the population after one frame that began with n agents
Grown(n) == IF n < MaxBoidCount THEN n + 1 ELSE n

(***************************************************************************)
(* C1.  The population never shrinks and no agent is removed; it never     *)
(* exceeds max_boid_count; a frame's spawn adds exactly one agent while    *)
(* the population is below max_boid_count and none once it is reached.     *)
(***************************************************************************)
C1_PopulationStep ==
    /\ IsPrefix(world.boids, world'.boids)
    /\ world.entities \subseteq world'.entities
    /\ Len(world'.boids) <= MaxBoidCount
    /\ world'.boid_count = Len(world'.boids)
    /\ Len(world'.boids) =
          IF "spawn" \in Range(order') THEN Grown(Len(frame_start'.boids))
                                      ELSE Len(frame_start'.boids)
    /\ order' = <<>> => world'.entities = Range(world'.boids)

C1_PopulationGrowth == [][C1_PopulationStep]_vars

\* the cap was reached and a later frame's spawn left the population alone
C1_Witness ==
    /\ Len(frame_start.boids) = MaxBoidCount
    /\ Ran("spawn")
    /\ Len(world.boids) = MaxBoidCount
    /\ world.entities = Range(world.boids)

(***************************************************************************)
(* C2.  In a frame update_boid runs only after flock has run over every    *)
(* agent; until update_boid runs every position and velocity is the one    *)
(* of the start of the frame, and the accelerations flock leaves are the   *)
(* ones computed from the positions and velocities of the frame's start.   *)
(***************************************************************************)
C2_ForcePassReadsFrameStart ==
    /\ Ran("update_boid") => Ran("flock")
    /\ ~Ran("update_boid") =>
          /\ world.entities = frame_start.entities
          /\ world.position = frame_start.position
          /\ world.velocity = frame_start.velocity
    /\ (Ran("flock") /\ ~Ran("update_boid")) =>
          world.acceleration = flock(frame_start).acceleration

\* a force pass over two agents that moved in earlier frames, spawn not first
C2_Witness ==
    /\ order = <<"flock", "spawn">>
    /\ Cardinality(world.entities) >= 2
    /\ \E e \in world.entities :
          /\ world.position[e] # ZERO
          /\ world.acceleration[e] # ZERO
          /\ Finite(world, e)

C6_SeekAtTargetIsZero ==
    \A e \in world.entities :
        /\ seek(world.position[e], world.position[e], world.velocity[e]) = ZERO
        /\ Finite(world, e)

(***************************************************************************)
(* C9.  In every frame the three systems run in the order spawn, flock,    *)
(* update_boid: spawn never runs after or between the two passes.          *)
(***************************************************************************)
C9_SpawnRunsFirst == IsPrefix(order, <<"spawn", "flock", "update_boid">>)

C8_Determinism ==
    /\ (schedule_done(order) /\ schedule_done(twin_order)) => world = twin
    /\ (order = <<>> /\ twin_order = <<>>) => world = twin

\* both runs finished a frame with moving, steered agents in different orders
C8_Witness ==
    /\ schedule_done(order)
    /\ schedule_done(twin_order)
    /\ order[1] = "spawn"
    /\ twin_order[3] = "spawn"
    /\ delta > 0
    /\ Len(world.boids) > Cardinality(world.entities)
    /\ \E e \in world.entities :
          /\ Finite(world, e)
          /\ world.velocity[e] # frame_start.velocity[e]
          /\ world.position[e] # frame_start.position[e]
    /\ world = twin

(***************************************************************************)
(* C5.  An agent at rest whose coordinate is exactly W+R is mapped to      *)
(* -W-R by the integration step, and one exactly at -W-R to W+R (the same  *)
(* for y against H+R).                                                     *)
(***************************************************************************)
AtRest(e) ==
    /\ e \in frame_start.entities
    /\ frame_start.velocity[e] = ZERO
    /\ world.velocity[e] = ZERO

C5_BoundIsWrapped ==
    order = <<"flock", "update_boid">> =>
        \A e \in world.entities :
            AtRest(e) =>
                /\ Abs(frame_start.position[e].x) = window[1] + R =>
                      world.position[e].x = -frame_start.position[e].x
                /\ Abs(frame_start.position[e].y) = window[2] + R =>
                      world.position[e].y = -frame_start.position[e].y

(***************************************************************************)
(* C5, amended.  An agent at rest whose coordinate is exactly W+R or       *)
(* exactly -W-R keeps that coordinate in the integration step: only a      *)
(* coordinate strictly beyond a bound is mapped to the opposite bound      *)
(* (the same for y against H+R).                                           *)
(***************************************************************************)
C5_BoundIsKept ==
    order = <<"flock", "update_boid">> =>
        \A e \in world.entities :
            AtRest(e) =>
                /\ Abs(frame_start.position[e].x) = window[1] + R =>
                      world.position[e].x = frame_start.position[e].x
                /\ Abs(frame_start.position[e].y) = window[2] + R =>
                      world.position[e].y = frame_start.position[e].y

\* an agent at rest exactly on the right bound went through the step
C5_Witness ==
    /\ order = <<"flock", "update_boid">>
    /\ \E e \in world.entities :
          /\ AtRest(e)
          /\ frame_start.position[e].x = window[1] + R
          /\ world.position[e] = frame_start.position[e]

(***************************************************************************)
(* C7.  Two agents at rest, closer than desired_separation: after the      *)
(* force pass the separation component of each is non-zero and points away *)
(* from the other agent, and its alignment and cohesion components are     *)
(* non-zero, well-defined vectors.                                         *)
(***************************************************************************)
C7_TwoAgentsAtRest ==
    ( /\ order = <<"flock">>
      /\ frame_start.entities = {1, 2}
      /\ frame_start.velocity[1] = ZERO
      /\ frame_start.velocity[2] = ZERO
      /\ within(frame_start.position[1], frame_start.position[2], DESIRED_SEPARATION) )
    => \A e \in {1, 2} :
          LET o   == 3 - e
              pos == frame_start.position[e]
              vel == frame_start.velocity[e]
              sep == separate(frame_start, pos, vel)
              ali == align(frame_start, pos, vel)
              coh == cohesion(frame_start, pos, vel)
          IN  /\ ~IsNaN(sep) /\ sep # ZERO
              /\ Dot(sep, sub(pos, frame_start.position[o])) > 0
              /\ ~IsNaN(ali) /\ ali # ZERO
              /\ ~IsNaN(coh) /\ coh # ZERO
              /\ ~IsNaN(world.acceleration[e])

====
